---- MODULE Spec2Model ----
(***************************************************************************)
(* Model of src/src/jaxsim/rbda/contacts/quasi_rigid.py:                   *)
(* QuasiRigidContactParams (build, valid, __hash__, __eq__) and            *)
(* QuasiRigidContacts (compute_contact_forces, _regularizers).             *)
(*                                                                         *)
(* Floating point values are modelled as exact extended rationals          *)
(* <<n, d>> with d >= 0 in lowest terms:  d > 0 is the finite value n/d,   *)
(* <<1,0>> is +inf, <<-1,0>> is -inf and <<0,0>> is NaN.  The operations   *)
(* follow IEEE-754 on the special values (x/0 = inf, 0/0 = NaN,            *)
(* inf*0 = NaN, NaN compares false with everything).  Rounding is not      *)
(* modelled and -0.0 is identified with +0.0.                              *)
(***************************************************************************)
EXTENDS Integers, Sequences, FiniteSets, TLC

VARIABLES
    p,        \* a QuasiRigidContactParams instance (record of ten fields)
    q,        \* a second instance, compared with p
    args,     \* keyword arguments of the pending build(...) call
    op,       \* the last operation executed on the parameters
    ret,      \* value returned by the last operation
    rin,      \* inputs of _regularizers (parameters, positions, velocities, inertias)
    rout,     \* per-contact intermediate and final values of _regularizers
    pc,       \* position inside compute_contact_forces
    inp,      \* arguments of compute_contact_forces
    velrepr,  \* data.velocity_representation
    reads,    \* quantity name -> velocity representation it was read under
    sys,      \* locals of compute_contact_forces: position, J_WC, ..., A, b
    x,        \* iterate of the solver
    iter,     \* number of solver iterations done
    call,     \* which of the two calls of compute_contact_forces is running
    W_f_C     \* forces returned by the first and by the second call

vars == <<p, q, args, op, ret, rin, rout, pc, inp, velrepr, reads, sys, x, iter, call, W_f_C>>

parVars == <<p, q, args, op, ret>>
regVars == <<rin, rout>>
ccfVars == <<pc, inp, velrepr, reads, sys, x, iter, call, W_f_C>>

-----------------------------------------------------------------------------
(* Extended rational arithmetic (the float operations the code uses).       *)

RECURSIVE GCD(_, _)
GCD(a, b) == IF b = 0 THEN a ELSE GCD(b, a % b)

AbsInt(n) == IF n < 0 THEN -n ELSE n
SgnInt(n) == IF n < 0 THEN -1 ELSE IF n = 0 THEN 0 ELSE 1

Norm(n, d) ==
    IF d = 0 THEN <<SgnInt(n), 0>>
    ELSE LET g == GCD(AbsInt(n), AbsInt(d))
             s == IF d < 0 THEN -1 ELSE 1
         IN  <<s * (n \div g), s * (d \div g)>>

NaN  == <<0, 0>>
PInf == <<1, 0>>
NInf == <<-1, 0>>
Zero == <<0, 1>>
One  == <<1, 1>>
Two  == <<2, 1>>
Q(n, d) == Norm(n, d)

IsNaN(a)    == a = NaN
IsFinite(a) == a[2] # 0

Add(a, b) ==
    IF a[2] = 0 /\ b[2] = 0
    THEN (IF a = b THEN a ELSE NaN)
    ELSE IF a[2] = 0 THEN a
    ELSE IF b[2] = 0 THEN b
    ELSE LET g == GCD(a[2], b[2])
         IN  Norm(a[1] * (b[2] \div g) + b[1] * (a[2] \div g), (a[2] \div g) * b[2])
Neg(a)    == <<-a[1], a[2]>>
Sub(a, b) == Add(a, Neg(b))
Mul(a, b) ==
    IF a[1] = 0 \/ a[2] = 0 \/ b[1] = 0 \/ b[2] = 0
    THEN Norm(a[1] * b[1], a[2] * b[2])
    ELSE LET g == GCD(AbsInt(a[1]), b[2])
             h == GCD(AbsInt(b[1]), a[2])
         IN  <<(a[1] \div g) * (b[1] \div h), (a[2] \div h) * (b[2] \div g)>>
Recip(a)  == Norm(a[2], a[1])
Div(a, b) == Mul(a, Recip(b))
AbsQ(a)   == <<AbsInt(a[1]), a[2]>>

\* IEEE comparisons: false as soon as one side is NaN
Lt(a, b) ==
    /\ ~IsNaN(a)
    /\ ~IsNaN(b)
    /\ IF a[2] = 0 /\ b[2] = 0 THEN a[1] < b[1] ELSE a[1] * b[2] < b[1] * a[2]
Le(a, b) == ~IsNaN(a) /\ ~IsNaN(b) /\ (a = b \/ Lt(a, b))
Gt(a, b) == Lt(b, a)
Ge(a, b) == Le(b, a)

\* jnp.maximum / jnp.minimum / jnp.clip propagate NaN
MaxQ(a, b) == IF IsNaN(a) \/ IsNaN(b) THEN NaN ELSE IF Lt(a, b) THEN b ELSE a
MinQ(a, b) == IF IsNaN(a) \/ IsNaN(b) THEN NaN ELSE IF Lt(b, a) THEN b ELSE a
Clip(v, lo, hi) == MinQ(MaxQ(v, lo), hi)

\* jnp.power for an integral exponent e (a finite rational with denominator 1);
\* pow(x, 0) = 1 for every x, NaN included; pow(0, -1) = inf.
RECURSIVE PowNat(_, _)
PowNat(a, n) == IF n = 0 THEN One ELSE Mul(a, PowNat(a, n - 1))
Pow(a, e) ==
    IF e[1] >= 0 THEN PowNat(a, e[1]) ELSE Recip(PowNat(a, -e[1]))

\* x * (cond) with a boolean factor: multiplication by 1.0 or by 0.0
MulBool(a, c) == Mul(a, IF c THEN One ELSE Zero)

-----------------------------------------------------------------------------
(* QuasiRigidContactParams                                                  *)

Fields == {"tau", "xi", "d_min", "d_max", "width", "midpoint", "power",
           "stiffness", "damping", "mu"}

\* the dataclass field defaults (default_factory of every field)
ClassDefaults ==
    [tau |-> Zero, xi |-> Zero, d_min |-> Zero, d_max |-> Zero, width |-> Zero,
     midpoint |-> Zero, power |-> Zero, stiffness |-> Zero, damping |-> Zero,
     mu |-> Q(1, 2)]

\* the defaults in the signature of build / build_from_jaxsim_model
BuildDefaults ==
    [tau |-> Q(1, 100), xi |-> One, d_min |-> Q(9, 10), d_max |-> Q(19, 20),
     width |-> Q(1, 10000), midpoint |-> Zero, power |-> Zero,
     stiffness |-> Zero, damping |-> Zero, mu |-> Q(1, 2)]

\* QuasiRigidContactParams(**kw): every field not given keeps its class default
Construct(kw) == [f \in Fields |-> IF f \in DOMAIN kw THEN kw[f] ELSE ClassDefaults[f]]

\* build(...): only mu, stiffness and damping are handed to the constructor
build(a) ==
    Construct([f \in {"mu", "stiffness", "damping"} |-> a[f]])

\* build_from_jaxsim_model(model, ...): forwards its ten keywords to build
build_from_jaxsim_model(a) ==
    build([f \in Fields |-> a[f]])

\* valid() without the upper bound on d_max
validUnbounded(s) ==
    /\ Ge(s.tau, Zero)
    /\ Ge(s.xi, Zero)
    /\ Ge(s.d_min, Zero)
    /\ Le(s.d_min, s.d_max)
    /\ Ge(s.width, Zero)
    /\ Ge(s.midpoint, Zero)
    /\ Ge(s.power, Zero)
    /\ Ge(s.stiffness, Zero)
    /\ Ge(s.damping, Zero)
    /\ Ge(s.mu, Zero)
\* valid(): the conjunction of lines 144-154
valid(s) ==
    /\ Ge(s.tau, Zero)
    /\ Ge(s.xi, Zero)
    /\ Ge(s.d_min, Zero)
    /\ Le(s.d_max, One)
    /\ Le(s.d_min, s.d_max)
    /\ Ge(s.width, Zero)
    /\ Ge(s.midpoint, Zero)
    /\ Ge(s.power, Zero)
    /\ Ge(s.stiffness, Zero)
    /\ Ge(s.damping, Zero)
    /\ Ge(s.mu, Zero)

\* hash of one wrapped scalar: a content hash of the value, computed with
\* Python's numeric hash, which is the value itself except hash(-1) = -2.
HashedNumpyArray(v) == IF v = Q(-1, 1) THEN Q(-2, 1) ELSE v

\* __hash__: hash of the tuple of the ten wrapped fields, in declaration
\* order; a tuple hash is a function of the hashes of its elements.
__hash__(s) ==
    <<HashedNumpyArray(s.tau), HashedNumpyArray(s.xi), HashedNumpyArray(s.d_min),
      HashedNumpyArray(s.d_max), HashedNumpyArray(s.width),
      HashedNumpyArray(s.midpoint), HashedNumpyArray(s.power),
      HashedNumpyArray(s.stiffness), HashedNumpyArray(s.damping),
      HashedNumpyArray(s.mu)>>

\* __eq__: hash(self) == hash(other)
__eq__(s, t) == __hash__(s) = __hash__(t)

-----------------------------------------------------------------------------
(* Values the parameter operations are exercised with.                      *)

\* one non-default value per keyword of build(...)
AltArg ==
    [tau |-> Q(1, 50), xi |-> Q(1, 2), d_min |-> Q(1, 2), d_max |-> One,
     width |-> Q(1, 1000), midpoint |-> Q(1, 2), power |-> Two,
     stiffness |-> Q(-1, 1), damping |-> Q(-1, 1), mu |-> One]

\* values a field is given when an instance is constructed directly
FieldValues(f) ==
    CASE f = "d_min" -> {Q(-1, 1), Zero, Q(9, 10), Q(24, 25)}
      [] f = "d_max" -> {Zero, Q(19, 20), One, Two}
      [] f \in {"tau", "xi", "width", "mu"} -> {Q(-1, 1), Zero, BuildDefaults[f]}
      [] OTHER -> {Q(-1, 1), Zero}

\* values used to make a second instance differ from the first
EqValues == {Q(-2, 1), Q(-1, 1), Zero, Q(1, 2)}

\* stiffness and damping given as direct spring / damper coefficients
SpringDamper == Construct([stiffness |-> Q(-1, 1), damping |-> Q(-1, 1)])

\* number of fields in which the second instance may differ from the first
MaxDiff == 2

DiffFields(s, t) == {f \in Fields : s[f] # t[f]}

regIdle == rin = <<>> /\ rout = <<>>
ccfIdle ==
    /\ pc = "idle" /\ inp = <<>> /\ velrepr = "Inertial" /\ reads = <<>>
    /\ sys = <<>> /\ x = <<>> /\ iter = 0 /\ call = 0 /\ W_f_C = <<>>

-----------------------------------------------------------------------------
(* build / build_from_jaxsim_model                                          *)

InitBuild ==
    /\ p = ClassDefaults /\ q = ClassDefaults
    /\ args = BuildDefaults          \* a call that passes no argument
    /\ op = "init" /\ ret = FALSE
    /\ regIdle /\ ccfIdle

\* the caller passes keyword f
PassArg(f) ==
    /\ op = "init"
    /\ args[f] = BuildDefaults[f]
    /\ args' = [args EXCEPT ![f] = AltArg[f]]
    /\ UNCHANGED <<p, q, op, ret, regVars, ccfVars>>

Build ==
    /\ op = "init"
    /\ p' = build(args)
    /\ op' = "build"
    /\ UNCHANGED <<q, args, ret, regVars, ccfVars>>

BuildFromJaxsimModel ==
    /\ op = "init"
    /\ p' = build_from_jaxsim_model(args)
    /\ op' = "build_from_jaxsim_model"
    /\ UNCHANGED <<q, args, ret, regVars, ccfVars>>

NextBuild ==
    \/ \E f \in Fields : PassArg(f)
    \/ Build
    \/ BuildFromJaxsimModel

SpecBuild == InitBuild /\ [][NextBuild]_vars

-----------------------------------------------------------------------------
(* construction and valid()                                                 *)

InitParams ==
    /\ p = Construct(<<>>) /\ q = ClassDefaults
    /\ args = ClassDefaults
    /\ op = "init" /\ ret = FALSE
    /\ regIdle /\ ccfIdle

\* QuasiRigidContactParams(..., f = v, ...): no check is made on any value
ConstructCall(f, v) ==
    /\ args' = [args EXCEPT ![f] = v]
    /\ p' = Construct(args')
    /\ op' = "construct"
    /\ ret' = FALSE
    /\ UNCHANGED <<q, regVars, ccfVars>>

ValidCall ==
    /\ op # "valid"
    /\ ret' = valid(p)
    /\ op' = "valid"
    /\ UNCHANGED <<p, q, args, regVars, ccfVars>>

NextParams ==
    \/ \E f \in Fields : \E v \in FieldValues(f) : ConstructCall(f, v)
    \/ ValidCall

SpecParams == InitParams /\ [][NextParams]_vars

-----------------------------------------------------------------------------
(* __hash__ and __eq__                                                      *)

InitEq ==
    /\ p \in {ClassDefaults, BuildDefaults, SpringDamper}
    /\ q = p
    /\ args = ClassDefaults
    /\ op = "init" /\ ret = FALSE
    /\ regIdle /\ ccfIdle

\* a second instance that differs from p in field f
OtherInstance(f, v) ==
    /\ Cardinality(DiffFields(p, [q EXCEPT ![f] = v])) <= MaxDiff
    /\ q' = [q EXCEPT ![f] = v]
    /\ op' = "construct"
    /\ ret' = FALSE
    /\ UNCHANGED <<p, args, regVars, ccfVars>>

HashCall ==
    /\ op # "hash"
    /\ ret' = (__hash__(p) = __hash__(q))
    /\ op' = "hash"
    /\ UNCHANGED <<p, q, args, regVars, ccfVars>>

EqCall ==
    /\ op # "eq"
    /\ ret' = __eq__(p, q)
    /\ op' = "eq"
    /\ UNCHANGED <<p, q, args, regVars, ccfVars>>

NextEq ==
    \/ \E f \in Fields : \E v \in EqValues : OtherInstance(f, v)
    \/ HashCall
    \/ EqCall

SpecEq == InitEq /\ [][NextEq]_vars

-----------------------------------------------------------------------------
(* Claims about the parameters                                              *)

\* C2: build() with no argument returns the documented defaults, and every
\* argument passed to build or build_from_jaxsim_model is the value of the
\* field of the same name in the returned instance.
C2_BuildReturnsArguments ==
    op \in {"build", "build_from_jaxsim_model"} =>
        \A f \in Fields : p[f] = args[f]

\* the ten invariants of the data model
ParamInvariants(s) ==
    /\ Ge(s.tau, Zero) /\ Ge(s.xi, Zero)
    /\ Le(Zero, s.d_min) /\ Le(s.d_min, s.d_max) /\ Le(s.d_max, One)
    /\ \A f \in {"width", "midpoint", "power", "stiffness", "damping", "mu"} :
           Ge(s[f], Zero)

\* C3: valid() is true exactly when all ten invariants hold, and the
\* constructor stores whatever value it is given, valid or not.
C3_ValidIffInvariants ==
    /\ op = "valid" => (ret <=> ParamInvariants(p))
    /\ op = "construct" => \A f \in Fields : p[f] = args[f]

\* valid() has answered false for d_min = 0.96 > d_max = 0.95, everything else in range
C3_Witness ==
    /\ op = "valid" /\ ret = FALSE
    /\ p.d_min = Q(24, 25) /\ p.d_max = Q(19, 20)
    /\ \A f \in Fields \ {"d_min", "d_max"} : Ge(p[f], Zero)

-----------------------------------------------------------------------------
(* _regularizers                                                            *)

\* The guard added to the impedance in the regularization weight is 1/EpsInv.
\* The code's 1e-12 does not fit the 32 bit integers of the model checker once
\* it is multiplied through the solve, so a coarser positive value stands for
\* it; the guard only has to be positive.
EpsInv == 2
Eps == Q(1, EpsInv)

\* vectors are sequences of values, matrices sequences of rows
Vec3(a, b, c) == <<a, b, c>>
\* the sequence <<f[1], ..., f[n]>>
RECURSIVE Tabulate(_, _)
Tabulate(f, n) == IF n = 0 THEN <<>> ELSE Append(Tabulate(f, n - 1), f[n])
ZeroVec(n) == Tabulate([i \in 1..n |-> Zero], n)
RECURSIVE SumTo(_, _)
SumTo(f, n) == IF n = 0 THEN Zero ELSE Add(SumTo(f, n - 1), f[n])
Dot(u, v) == SumTo([i \in 1..Len(u) |-> Mul(u[i], v[i])], Len(u))
MatVec(A, v) == Tabulate([i \in 1..Len(A) |-> Dot(A[i], v)], Len(A))
VecMatMut(v, A) == Tabulate([j \in 1..Len(A[1]) |-> Mul(v[j], A[1][j])], Len(A[1]))
\* v @ A for a vector v and a matrix A
VecMat(v, A) ==
    Tabulate([j \in 1..Len(A[1]) |->
                 SumTo([i \in 1..Len(v) |-> Mul(v[i], A[i][j])], Len(v))], Len(A[1]))
Transpose(A) ==
    Tabulate([j \in 1..Len(A[1]) |-> Tabulate([i \in 1..Len(A) |-> A[i][j]], Len(A))],
             Len(A[1]))
Diag(d) ==
    Tabulate([i \in 1..Len(d) |->
                 Tabulate([j \in 1..Len(d) |-> IF i = j THEN d[i] ELSE Zero], Len(d))],
             Len(d))
\* jnp.concatenate / jnp.vstack of a sequence of blocks
RECURSIVE Concat(_)
Concat(blocks) ==
    IF blocks = <<>> THEN <<>> ELSE blocks[1] \o Concat(Tail(blocks))

\* jnp.linalg.inv of an inertia tensor given by its principal moments (a
\* positive diagonal matrix)
Inv(I) ==
    Tabulate([i \in 1..Len(I) |->
                 Tabulate([j \in 1..Len(I) |-> IF i = j THEN Recip(I[i][i]) ELSE Zero],
                          Len(I))], Len(I))

\* lines 309-317 for one component of position: the impedance
ImpNoSaturation(par, pos) ==
    LET imp_x == Div(AbsQ(pos), par.width)
        imp_a == Mul(Recip(Pow(par.midpoint, Sub(par.power, One))),
                     Pow(imp_x, par.power))
        imp_b == Sub(One, Mul(Recip(Pow(Sub(One, par.midpoint), Sub(par.power, One))),
                              Pow(Sub(One, imp_x), par.power)))
        imp_y == IF Lt(imp_x, par.midpoint) THEN imp_a ELSE imp_b
    IN  Clip(Add(par.d_min, Mul(imp_y, Sub(par.d_max, par.d_min))), par.d_min, par.d_max)
Imp(par, pos) ==
    LET imp_x == Div(AbsQ(pos), par.width)
        imp_a == Mul(Recip(Pow(par.midpoint, Sub(par.power, One))),
                     Pow(imp_x, par.power))
        imp_b == Sub(One, Mul(Recip(Pow(Sub(One, par.midpoint), Sub(par.power, One))),
                              Pow(Sub(One, imp_x), par.power)))
        imp_y == IF Lt(imp_x, par.midpoint) THEN imp_a ELSE imp_b
        imp   == Clip(Add(par.d_min, Mul(imp_y, Sub(par.d_max, par.d_min))),
                      par.d_min, par.d_max)
    IN  IF Gt(imp_x, One) THEN par.d_max ELSE imp

\* line 320 and line 321
TimeConstantK(par) ==
    LET t == Mul(Mul(par.d_max, par.tau), par.xi) IN Recip(Mul(t, t))
TimeConstantD(par) == Div(Two, Mul(par.d_max, par.tau))
KfJoint(par) ==
    IF Le(par.stiffness, Zero) /\ Le(par.damping, Zero)
    THEN Div(Neg(par.stiffness), Mul(par.d_max, par.d_max))
    ELSE TimeConstantK(par)
Kf(par) ==
    IF Le(par.stiffness, Zero)
    THEN Div(Neg(par.stiffness), Mul(par.d_max, par.d_max))
    ELSE TimeConstantK(par)
Df(par) ==
    IF Le(par.damping, Zero)
    THEN Div(Neg(par.damping), par.d_max)
    ELSE TimeConstantD(par)

\* line 323: a_ref = -(D_f * velocity + K_f * imp * position), per component
Aref(K_f, D_f, imp, position, velocity) ==
    Tabulate([i \in 1..3 |->
        Neg(Add(Mul(D_f, velocity[i]), Mul(Mul(K_f, imp[i]), position[i])))], 3)

\* line 325: return imp, a_ref
ImpArefResult(imp, par, position, velocity) ==
    [imp |-> imp, a_ref |-> Aref(Kf(par), Df(par), imp, position, velocity)]

\* _imp_aref on the three components of position and velocity
_imp_aref(par, position, velocity) ==
    ImpArefResult(<<Imp(par, position[1]), Imp(par, position[2]), Imp(par, position[3])>>,
                  par, position, velocity)

\* (2 mu^2 (1 - xi) / (xi + eps)) * (1 + mu^2) for one component (line 348)
WeightOf(mu2, imp) ==
    Mul(Div(Mul(Mul(Two, mu2), Sub(One, imp)), Add(imp, Eps)), Add(One, mu2))
Weight(par, imp) == WeightOf(Mul(par.mu, par.mu), imp)

\* lines 348-350 for the impedance and reference acceleration ia of one
\* contact: R = weight @ inv(I), and both a_ref and R multiplied by
\* (position[2] < 0)
RowResult(ia, par, I, position) ==
    [imp   |-> ia.imp,
     a_ref |-> Tabulate([i \in 1..3 |->
                   MulBool(ia.a_ref[i], Lt(position[3], Zero))], 3),
     R     |-> Tabulate([i \in 1..3 |->
                   MulBool(VecMat(<<Weight(par, ia.imp[1]), Weight(par, ia.imp[2]),
                                    Weight(par, ia.imp[3])>>, Inv(I))[i],
                           Lt(position[3], Zero))], 3)]

\* _compute_row: reference acceleration and regularization of one contact
_compute_row(par, I, position, velocity) ==
    RowResult(_imp_aref(par, position, velocity), par, I, position)

\* lines 352-364: the rows of all contacts concatenated, R as a diagonal matrix
RegularizersResult(row, par) ==
    [imp   |-> Tabulate([c \in 1..Len(row) |-> row[c].imp], Len(row)),
     K_f   |-> Kf(par),
     D_f   |-> Df(par),
     a_ref |-> Concat(Tabulate([c \in 1..Len(row) |-> row[c].a_ref], Len(row))),
     R     |-> Diag(Concat(Tabulate([c \in 1..Len(row) |-> row[c].R], Len(row))))]

\* _regularizers: _compute_row mapped over the contacts
_regularizers(par, inertia, position, velocity) ==
    RegularizersResult(
        Tabulate([c \in 1..Len(position) |->
                     _compute_row(par, inertia[c], position[c], velocity[c])],
                 Len(position)),
        par)

\* what _detect_contact returns for a point at signed distance gap
ContactPosition(gap) == Vec3(Zero, Zero, gap)

-----------------------------------------------------------------------------
(* _regularizers as a function of its arguments                             *)

RegWidth == Q(1, 10000)
RegParams ==
    {[BuildDefaults EXCEPT !.power = pw, !.midpoint = m, !.stiffness = K, !.damping = D] :
        pw \in {Zero, One, Two}, m \in {Zero, Q(1, 2), One},
        K \in {Q(-1, 1), Zero, One}, D \in {Q(-1, 1), Zero, One}}
    \cup {ClassDefaults, SpringDamper, [BuildDefaults EXCEPT !.d_min = Q(19, 20)]}
\* depths giving |depth| / width in {0, 1/2, 1, 2} on both sides of the surface
RegGaps == {Mul(RegWidth, Q(n, 2)) : n \in {-4, -2, -1, 0, 1, 2}}
RegVelocities == {Vec3(Zero, Zero, Zero), Vec3(One, Zero, Q(-1, 1))}
Isotropic == Diag(Vec3(Two, Two, Two))
Principal == Diag(Vec3(One, Two, Q(4, 1)))
IsIsotropic(I) == I[1][1] = I[2][2] /\ I[2][2] = I[3][3]

InitReg ==
    /\ p = ClassDefaults /\ q = ClassDefaults /\ args = ClassDefaults
    /\ op = "init" /\ ret = FALSE
    /\ ccfIdle
    /\ \E par \in RegParams, g1 \in RegGaps, g2 \in {Q(-1, 5000), Q(1, 10000)},
          v \in RegVelocities, I1 \in {Isotropic, Principal} :
          rin = [parameters |-> par,
                 position   |-> <<ContactPosition(g1), ContactPosition(g2)>>,
                 velocity   |-> <<v, v>>,
                 inertia    |-> <<I1, Isotropic>>]
    /\ rout = <<>>

RegularizersCall ==
    /\ rout = <<>>
    /\ rout' = _regularizers(rin.parameters, rin.inertia, rin.position, rin.velocity)
    /\ UNCHANGED <<parVars, rin, ccfVars>>

NextReg == RegularizersCall

SpecReg == InitReg /\ [][NextReg]_vars

Contacts(position) == 1..Len(position)
\* normalized penetration of contact c
NormDepth(c) == Div(AbsQ(rin.position[c][3]), rin.parameters.width)
\* diagonal entry of R for component i of contact c
REntry(c, i) == rout.R[3 * (c - 1) + i][3 * (c - 1) + i]

\* C5 as stated: for d_min <= d_max and normalized penetration x >= 1 the
\* impedance of the normal component is d_max.
C5_SaturatesFromOne ==
    rout # <<>> =>
        \A c \in Contacts(rin.position) :
            (Le(rin.parameters.d_min, rin.parameters.d_max) /\ Ge(NormDepth(c), One))
                => rout.imp[c][3] = rin.parameters.d_max

\* C5 amended: for normalized penetration x > 1 the impedance of the normal
\* component is d_max.
C5_SaturatesAboveOne ==
    rout # <<>> =>
        \A c \in Contacts(rin.position) :
            Gt(NormDepth(c), One) => rout.imp[c][3] = rin.parameters.d_max

C5_Witness ==
    /\ rout # <<>>
    /\ Lt(rin.parameters.d_min, rin.parameters.d_max)
    /\ rin.parameters.power = Two
    /\ NormDepth(1) = Two
    /\ rout.imp[1][3] = rin.parameters.d_max

C8_SameBranch ==
    rout # <<>> =>
        LET par == rin.parameters IN
        IF Le(par.stiffness, Zero) /\ Le(par.damping, Zero)
        THEN /\ rout.K_f = Div(Neg(par.stiffness), Mul(par.d_max, par.d_max))
             /\ rout.D_f = Div(Neg(par.damping), par.d_max)
        ELSE /\ rout.K_f = TimeConstantK(par)
             /\ rout.D_f = TimeConstantD(par)

\* C8 amended: K_f is chosen by the sign of K alone (K <= 0: -K/d_max^2,
\* K > 0: 1/(d_max*tau*xi)^2) and D_f by the sign of D alone (D <= 0:
\* -D/d_max, D > 0: 2/(d_max*tau)).
C8_IndependentBranches ==
    rout # <<>> =>
        LET par == rin.parameters IN
        /\ Le(par.stiffness, Zero) =>
               rout.K_f = Div(Neg(par.stiffness), Mul(par.d_max, par.d_max))
        /\ Gt(par.stiffness, Zero) =>
               rout.K_f = Recip(PowNat(Mul(Mul(par.d_max, par.tau), par.xi), 2))
        /\ Le(par.damping, Zero) => rout.D_f = Div(Neg(par.damping), par.d_max)
        /\ Gt(par.damping, Zero) => rout.D_f = Div(Two, Mul(par.d_max, par.tau))

\* stiffness from the direct branch, damping from the time constant
C8_Witness ==
    /\ rout # <<>>
    /\ rin.parameters.stiffness = Q(-1, 1) /\ rin.parameters.damping = One
    /\ rout.K_f = Q(400, 361) /\ rout.D_f = Q(4000, 19)

-----------------------------------------------------------------------------
(* compute_contact_forces                                                   *)

\* A terrain: height_at(x, y) = h0 + slope * x and a constant unit normal.
FlatTerrain   == [h0 |-> Zero, slope |-> Zero, normal |-> Vec3(Zero, Zero, One)]
RaisedTerrain == [h0 |-> Two, slope |-> Zero, normal |-> Vec3(Zero, Zero, One)]
SlopedTerrain == [h0 |-> Zero, slope |-> Q(3, 4),
                  normal |-> Vec3(Q(-3, 5), Zero, Q(4, 5))]
get_height_at(t, px, py) == Add(t.h0, Mul(t.slope, px))
get_normal_at(t, px, py) == t.normal

\* the terrain _detect_contact evaluates, for the contact model `self` and
\* the model argument
SelfTerrain(self, model) == self.terrain
DetectTerrain(self, model) == model.terrain

\* _detect_contact: [0, 0, dot([0, 0, z - height], normal)]
_detect_contact(t, P) ==
    LET n == get_normal_at(t, P[1], P[2])
        h == Vec3(Zero, Zero, Sub(P[3], get_height_at(t, P[1], P[2])))
    IN  Vec3(Zero, Zero, Dot(h, n))

\* j * (height < 0) for the 3 x n block j of one contact
MaskBlock(j, height) ==
    Tabulate([r \in 1..Len(j) |->
                 Tabulate([c \in 1..Len(j[r]) |-> MulBool(j[r][c], Lt(height, Zero))],
                          Len(j[r]))], Len(j))

\* jnp.linalg.lstsq(M, B)[0] for a diagonal M with entries >= 0: the
\* minimum-norm least-squares solution, row i of B divided by M[i][i], and
\* zero where M[i][i] = 0
LstsqVec(M, v) ==
    Tabulate([i \in 1..Len(v) |-> IF M[i][i] = Zero THEN Zero ELSE Div(v[i], M[i][i])],
             Len(v))
MatMul(A, B) ==
    LET Bt == Transpose(B)
    IN  Tabulate([i \in 1..Len(A) |->
                     Tabulate([j \in 1..Len(Bt) |-> Dot(A[i], Bt[j])], Len(Bt))], Len(A))
MatAdd(A, B) ==
    Tabulate([i \in 1..Len(A) |->
                 Tabulate([j \in 1..Len(A[i]) |-> Add(A[i][j], B[i][j])], Len(A[i]))],
             Len(A))
VecAdd(u, v) == Tabulate([i \in 1..Len(u) |-> Add(u[i], v[i])], Len(u))
VecSub(u, v) == Tabulate([i \in 1..Len(u) |-> Sub(u[i], v[i])], Len(u))
VecScale(a, v) == Tabulate([i \in 1..Len(v) |-> Mul(a, v[i])], Len(v))

\* G = J_WC @ lstsq(M, J_WC.T)[0]
Delassus(M, J) ==
    LET X == Tabulate([c \in 1..Len(J) |-> LstsqVec(M, J[c])], Len(J))
    IN  MatMul(J, Transpose(X))

\* CW_al_free_WC = J_WC @ lstsq(M, -h)[0] + Jdot_WC @ nu
FreeAcceleration(M, J, Jdot, h, nu) ==
    VecAdd(MatVec(J, LstsqVec(M, VecScale(Q(-1, 1), h))), MatVec(Jdot, nu))

\* gradient of objective(x) = sum((A @ x + b)^2)
Gradient(A, b, v) == VecScale(Two, MatVec(Transpose(A), VecAdd(MatVec(A, v), b)))

\* the solver stops once the norm of the gradient is not above the tolerance
GradientAboveTol(g) ==
    /\ \A i \in 1..Len(g) : ~IsNaN(g[i])
    /\ \E i \in 1..Len(g) : g[i] # Zero

\* one iteration of the solver: a step of the line search's length along the
\* descent direction of the first L-BFGS iteration (the negative gradient)
SolverUpdate(A, b, v, stepsize) == VecSub(v, VecScale(stepsize, Gradient(A, b, v)))

\* maxiter of the solver, and the number of iterations the model follows
maxiter == 100
MaxIter == 2

\* mixed_to_inertial: transpose of the inverse adjoint of the pose with
\* identity rotation, applied to [force, 0, 0, 0]: [f, o x f] for the origin
\* o of the contact frame
mixed_to_inertial(o, f) ==
    <<f[1], f[2], f[3],
      Sub(Mul(o[2], f[3]), Mul(o[3], f[2])),
      Sub(Mul(o[3], f[1]), Mul(o[1], f[3])),
      Sub(Mul(o[1], f[2]), Mul(o[2], f[1]))>>

\* the velocity representation of the with block
WithReprMut == "Body"
WithRepr == "Mixed"

Quantities == {"M", "J_WC", "W_H_C", "h", "W_nu", "Jdot_WC"}

NoLocals ==
    [position |-> <<>>, saved_repr |-> "", M |-> <<>>, J_WC |-> <<>>, W_H_C |-> <<>>,
     h |-> <<>>, W_nu |-> <<>>, Jdot_WC |-> <<>>, a_ref |-> <<>>, R |-> <<>>,
     A |-> <<>>, b |-> <<>>]

-----------------------------------------------------------------------------
(* Arguments compute_contact_forces is called with                          *)

\* parameters with unit time constant and width
UnitParams ==
    [tau |-> One, xi |-> One, d_min |-> Q(1, 2), d_max |-> One, width |-> One,
     midpoint |-> Zero, power |-> Zero, stiffness |-> One, damping |-> One,
     mu |-> One]
\* the same with stiffness and damping given as spring / damper coefficients
UnitDirect == [UnitParams EXCEPT !.stiffness = Q(-1, 1), !.damping = Q(-1, 1)]
\* the two above and the parameters build() returns when called without arguments
CcfParams == {UnitParams, UnitDirect, build(BuildDefaults)}
Point(a, b, c) == Vec3(Q(a, 1), Q(b, 1), Q(c, 1))
CcfPositions ==
    {<<P1, P2>> : P1 \in {Point(0, 0, -1), Point(0, 0, 1), Point(4, 0, 1)},
                  P2 \in {Point(0, 0, -1), Point(0, 0, 0)}}
CcfVelocities == {<<v, v>> : v \in {Point(0, 0, 0), Point(1, 0, -1)}}
Identity3 == Diag(Point(1, 1, 1))
Coupled3  == <<Point(1, 0, 0), Point(0, 1, 0), Point(1, 0, 1)>>
CcfData ==
    {[M |-> Diag(m), J |-> <<Identity3, j2>>, Jdot |-> <<Identity3, Identity3>>,
      h |-> Point(0, 0, 2), nu |-> Point(1, 0, -1),
      W_H_C |-> <<Point(1, 2, 3), Point(0, 0, 0)>>,
      velocity_representation |-> vr] :
        m \in {Point(1, 1, 1), Point(2, 1, 0)}, j2 \in {Identity3, Coupled3},
        vr \in {"Inertial", "Body", "Mixed"}}
\* step lengths the line search settles on
CcfStepsizes == {Q(1, 4), Q(1, 2)}
CcfModels ==
    {[terrain |-> t, inertia |-> <<Isotropic, Principal>>, body |-> <<2, 1>>] :
        t \in {FlatTerrain, RaisedTerrain, SlopedTerrain}}

Init ==
    /\ p = ClassDefaults /\ q = ClassDefaults /\ args = ClassDefaults
    /\ op = "init" /\ ret = FALSE
    /\ regIdle
    /\ \E par \in CcfParams, pos \in CcfPositions, vel \in CcfVelocities,
          model \in CcfModels, data \in CcfData, a \in CcfStepsizes :
          inp = [self     |-> <<[parameters |-> par, terrain |-> FlatTerrain],
                                [parameters |-> par, terrain |-> RaisedTerrain]>>,
                 position |-> pos, velocity |-> vel, model |-> model, data |-> data,
                 stepsize |-> a]
    /\ pc = "start" /\ call = 1
    /\ velrepr = inp.data.velocity_representation
    /\ reads = [n \in Quantities |-> ""]
    /\ sys = NoLocals
    /\ x = <<>> /\ iter = 0
    /\ W_f_C = <<<<>>, <<>>>>

NC == Len(inp.position)
Self == inp.self[call]

\* position = jax.vmap(_detect_contact)(*position.T)
Detect ==
    /\ pc = "start"
    /\ sys' = [sys EXCEPT !.position =
                  Tabulate([c \in 1..NC |->
                      _detect_contact(DetectTerrain(Self, inp.model), inp.position[c])], NC)]
    /\ pc' = "detected"
    /\ UNCHANGED <<parVars, regVars, inp, velrepr, reads, x, iter, call, W_f_C>>

\* with data.switch_velocity_representation(...): entry
EnterWith ==
    /\ pc = "detected"
    /\ sys' = [sys EXCEPT !.saved_repr = velrepr]
    /\ velrepr' = WithRepr
    /\ pc' = "with"
    /\ UNCHANGED <<parVars, regVars, inp, reads, x, iter, call, W_f_C>>

\* lines 219-233: M, J_WC, W_H_C, h, W_nu and Jdot_WC are read from data
ReadData ==
    /\ pc = "with"
    /\ sys' = [sys EXCEPT
                 !.M = inp.data.M,
                 !.J_WC = Concat(Tabulate([c \in 1..NC |->
                             MaskBlock(inp.data.J[c], sys.position[c][3])], NC)),
                 !.W_H_C = inp.data.W_H_C,
                 !.h = inp.data.h,
                 !.W_nu = inp.data.nu,
                 !.Jdot_WC = Concat(Tabulate([c \in 1..NC |->
                             MaskBlock(inp.data.Jdot[c], sys.position[c][3])], NC))]
    /\ reads' = [n \in Quantities |-> velrepr]
    /\ pc' = "read"
    /\ UNCHANGED <<parVars, regVars, inp, velrepr, x, iter, call, W_f_C>>

\* lines 235-240: a_ref, R = self._regularizers(...)
CallRegularizers ==
    /\ pc = "read"
    /\ LET r == _regularizers(Self.parameters,
                             Tabulate([c \in 1..NC |-> inp.model.inertia[inp.model.body[c]]], NC),
                             sys.position, inp.velocity)
       IN  sys' = [sys EXCEPT !.a_ref = r.a_ref, !.R = r.R]
    /\ pc' = "regularized"
    /\ UNCHANGED <<parVars, regVars, inp, velrepr, reads, x, iter, call, W_f_C>>

\* end of the with block: the representation set on entry is restored
ExitWith ==
    /\ pc = "regularized"
    /\ velrepr' = sys.saved_repr
    /\ pc' = "assemble"
    /\ UNCHANGED <<parVars, regVars, inp, reads, sys, x, iter, call, W_f_C>>

\* lines 242-248 and the initial iterate of line 263
Assemble ==
    /\ pc = "assemble"
    /\ LET G  == Delassus(sys.M, sys.J_WC)
           af == FreeAcceleration(sys.M, sys.J_WC, sys.Jdot_WC, sys.h, sys.W_nu)
       IN  sys' = [sys EXCEPT !.A = MatAdd(G, sys.R), !.b = VecSub(af, sys.a_ref)]
    /\ x' = ZeroVec(3 * NC)
    /\ iter' = 0
    /\ pc' = "solve"
    /\ UNCHANGED <<parVars, regVars, inp, velrepr, reads, call, W_f_C>>

SolverContinues ==
    /\ iter < maxiter
    /\ iter < MaxIter
    /\ iter = 0 \/ GradientAboveTol(Gradient(sys.A, sys.b, x))

SolveStep ==
    /\ pc = "solve"
    /\ SolverContinues
    /\ x' = SolverUpdate(sys.A, sys.b, x, inp.stepsize)
    /\ iter' = iter + 1
    /\ UNCHANGED <<parVars, regVars, pc, inp, velrepr, reads, sys, call, W_f_C>>

\* opt.run returns; the forces are reshaped and mapped to the inertial frame
Return ==
    /\ pc = "solve"
    /\ ~SolverContinues
    /\ W_f_C' = [W_f_C EXCEPT ![call] =
                    Tabulate([c \in 1..NC |->
                        mixed_to_inertial(sys.W_H_C[c],
                                          SubSeq(x, 3 * c - 2, 3 * c))], NC)]
    /\ pc' = "done"
    /\ UNCHANGED <<parVars, regVars, inp, velrepr, reads, sys, x, iter, call>>

\* the same arguments are passed to the second contact model
SecondCall ==
    /\ pc = "done"
    /\ call = 1
    /\ call' = 2
    /\ pc' = "start"
    /\ sys' = NoLocals
    /\ reads' = [n \in Quantities |-> ""]
    /\ x' = <<>>
    /\ iter' = 0
    /\ UNCHANGED <<parVars, regVars, inp, velrepr, W_f_C>>

Next ==
    \/ Detect
    \/ EnterWith
    \/ ReadData
    \/ CallRegularizers
    \/ ExitWith
    \/ Assemble
    \/ SolveStep
    \/ Return
    \/ SecondCall

Spec == Init /\ [][Next]_vars

-----------------------------------------------------------------------------
(* Claims about compute_contact_forces                                      *)

\* contact c was detected inactive (depth >= 0) in the running call
Inactive(c) == Ge(sys.position[c][3], Zero)
Rows(c) == {3 * c - 2, 3 * c - 1, 3 * c}
ZeroForce == <<Zero, Zero, Zero, Zero, Zero, Zero>>
AllFinite(v) == \A i \in 1..Len(v) : IsFinite(v[i])

\* C1: the force returned for every collidable point with depth >= 0 is
\* exactly zero.
C1_InactiveForceIsZero ==
    pc = "done" =>
        \A c \in 1..NC : Inactive(c) => W_f_C[call][c] = ZeroForce

\* the same, restricted to calls in which a_ref and R are finite
C1_InactiveForceIsZeroWhenFinite ==
    (pc = "done" /\ AllFinite(sys.a_ref) /\ \A i \in 1..Len(sys.R) : AllFinite(sys.R[i])) =>
        \A c \in 1..NC : Inactive(c) => W_f_C[call][c] = ZeroForce

\* C6: before the solve, the rows and columns of A and the entries of b that
\* belong to an inactive contact are zero.
C6_InactiveRowsAreZero ==
    pc \in {"solve", "done"} =>
        \A c \in 1..NC : Inactive(c) =>
            \A i \in Rows(c) :
                /\ sys.b[i] = Zero
                /\ \A j \in 1..Len(sys.A) : sys.A[i][j] = Zero /\ sys.A[j][i] = Zero

\* the same, restricted to calls in which a_ref and R are finite
C6_InactiveRowsAreZeroWhenFinite ==
    (pc \in {"solve", "done"} /\ AllFinite(sys.a_ref)
        /\ \A i \in 1..Len(sys.R) : AllFinite(sys.R[i])) =>
        \A c \in 1..NC : Inactive(c) =>
            \A i \in Rows(c) :
                /\ sys.b[i] = Zero
                /\ \A j \in 1..Len(sys.A) : sys.A[i][j] = Zero /\ sys.A[j][i] = Zero

\* C9: the six quantities are read while the velocity representation is
\* Mixed, and after the with block the representation is the one the caller
\* had set.
C9_MixedInsideRestoredAfter ==
    /\ pc \in {"with", "read", "regularized"} => velrepr = "Mixed"
    /\ pc \notin {"start", "detected", "with"} =>
           \A n \in Quantities : reads[n] = "Mixed"
    /\ pc \in {"assemble", "solve", "done"} =>
           velrepr = inp.data.velocity_representation

\* a call entered in Body representation has returned
C9_Witness ==
    /\ pc = "done"
    /\ inp.data.velocity_representation = "Body"
    /\ velrepr = "Body"
    /\ \A n \in Quantities : reads[n] = "Mixed"

\* C10: a point is active exactly when (z - height(x, y)) * normal_z(x, y) < 0
\* for the terrain of the model argument, and two contact models that differ
\* only in their own terrain return the same forces.
C10_TerrainOfModelOnly ==
    /\ pc # "start" =>
           \A c \in 1..NC :
               LET P == inp.position[c]
                   t == inp.model.terrain
               IN  Lt(sys.position[c][3], Zero) <=>
                       Lt(Mul(Sub(P[3], get_height_at(t, P[1], P[2])),
                              get_normal_at(t, P[1], P[2])[3]), Zero)
    /\ (pc = "done" /\ call = 2) => W_f_C[1] = W_f_C[2]

\* both calls have returned the same non-zero force for a point that is
\* above the terrain of the first contact model and below the model's
C10_Witness ==
    /\ pc = "done" /\ call = 2
    /\ inp.self[1].terrain # inp.self[2].terrain
    /\ inp.model.terrain = SlopedTerrain
    /\ inp.position[1] = Point(4, 0, 1)
    /\ Lt(sys.position[1][3], Zero)
    /\ AllFinite(W_f_C[2][1])
    /\ W_f_C[2][1] # ZeroForce
    /\ W_f_C[1] = W_f_C[2]

====
